---- MODULE Spec2Model ----
(***************************************************************************)
(* Flow-run utilities of the react UI (flowRunUtils: findFailedStep,       *)
(* findLoopsState, extractStepOutput) and the platform project service's   *)
(* softDelete.                                                             *)
(*                                                                         *)
(* Representation.                                                         *)
(*  - A chain of actions linked by nextAction is a sequence of nodes; a    *)
(*    loop node owns its body chain in firstLoopAction.                    *)
(*  - A Record<string, StepOutput> is a sequence of <<name, record>>       *)
(*    pairs with distinct names: Object.entries order is sequence order.   *)
(*  - An optional value (T | undefined) is <<>> or <<v>>.                  *)
(*  - Every step record carries ref, the place it was recorded at; it      *)
(*    stands for the identity of the JavaScript object.                    *)
(***************************************************************************)
EXTENDS Integers, Sequences, FiniteSets, TLC

(* ------------------------------ bounds --------------------------------- *)
\* Iterations a loop records.
MaxIter == 3
\* Step records in a run of the failure search, and failed ones among them.
MaxRecords == 5
MaxFailed == 2
\* Step records in a run of the output lookup.
MaxLocateRecords == 4

\* The indexes a caller's currentLoopsState holds.
CurrentIndexes == {1, 2}

\* softDelete calls begun in a behaviour.
MaxCalls == 3

\* Step names of the flows, handed out in depth-first order.
StepNames == <<"A", "B", "C", "D">>
\* A name that is no step of any flow.
GHOST == "ghost"

(* ----------------------------- constants ------------------------------- *)
LOOP_ON_ITEMS == "LOOP_ON_ITEMS"
CODE == "CODE"
TRIGGER == "TRIGGER"
SUCCEEDED == "SUCCEEDED"
FAILED == "FAILED"
NULL == "null"
\* Number.MAX_SAFE_INTEGER is 2^53 - 1; TLC's integers are 32 bits wide, so the
\* sentinel is the largest of those. Only its being above every index matters.
MAX_SAFE_INTEGER == 2147483647

ProjectIds == {"p1", "p2"}
PlatformIds == {"pf1", "pf2"}
Callers == {"c1", "c2"}
VALIDATION == "VALIDATION"
ENTITY_NOT_FOUND == "ENTITY_NOT_FOUND"

EmptyMap == [k \in {} |-> 0]
Undefined == [threw |-> FALSE, val |-> <<>>]
Threw == [threw |-> TRUE, val |-> <<>>]
NoRef == [names |-> <<>>, idxs |-> <<>>]

\* A caller without a call. pc is where the call stands; flowEnabled what it
\* read of the project's flows; affected its update's row count; wrote whether
\* its update is pending; ranSideEffect whether it ran onSoftDelete; committed
\* whether its transaction committed; error what it threw. row is history, for
\* the properties: the project's row, if any, as the call last went to the
\* database.
NoCall == [pc |-> "none", id |-> NULL, platformId |-> NULL, flowEnabled |-> FALSE,
           row |-> <<>>, affected |-> 0, wrote |-> FALSE, ranSideEffect |-> FALSE,
           committed |-> FALSE, error |-> NULL]

VARIABLES
    trigger,            \* flowVersion.trigger: the chain of actions after the trigger
    steps,              \* run.steps
    op,                 \* the operation last called ("idle": none yet)
    stepName,           \* extractStepOutput's stepName
    loopIndexes,        \* extractStepOutput's loopIndexes
    stepOutput,         \* extractStepOutput's result
    failedStep,         \* findFailedStep's result
    runHasSteps,        \* findLoopsState: whether run.steps is present
    currentLoopsState,  \* findLoopsState's currentLoopsState, after the call
    loopsState,         \* findLoopsState's result
    projects,           \* project table: id -> [platformId, deleted]
    enabledFlows,       \* ids of the projects that have an ENABLED flow
    tx,                 \* the softDelete call of each caller
    sideEffects,        \* ids onSoftDelete has run for
    calls               \* softDelete calls begun

callVars == <<op, stepName, loopIndexes, stepOutput, failedStep, runHasSteps,
              currentLoopsState, loopsState>>
dbVars == <<projects, enabledFlows, tx, sideEffects, calls>>
flowVars == <<trigger, steps, callVars>>
vars == <<trigger, steps, callVars, dbVars>>

(* ------------------------------ flows ---------------------------------- *)
TriggerNode == [name |-> "trigger", type |-> TRIGGER, firstLoopAction |-> <<>>]

\* Every chain whose steps, in depth-first order, are named ns; a loop's body
\* holds at least one step.
RECURSIVE Chains(_)
Chains(ns) ==
    IF ns = <<>> THEN {<<>>}
    ELSE LET h == Head(ns)
             t == Tail(ns)
         IN  {<<[name |-> h, type |-> CODE, firstLoopAction |-> <<>>]>> \o rest :
                 rest \in Chains(t)}
             \cup UNION {
                 {<<[name |-> h, type |-> LOOP_ON_ITEMS, firstLoopAction |-> body]>> \o rest :
                     body \in Chains(SubSeq(t, 1, k)),
                     rest \in Chains(SubSeq(t, k + 1, Len(t)))} : k \in 1..Len(t)}

Triggers == UNION {Chains(SubSeq(StepNames, 1, n)) : n \in 1..Len(StepNames)}

RECURSIVE Size(_)
Size(chain) ==
    IF chain = <<>> THEN 0
    ELSE 1 + Size(chain[1].firstLoopAction) + Size(Tail(chain))

RECURSIVE Depth(_)
Depth(chain) ==
    IF chain = <<>> THEN 0
    ELSE LET here == IF chain[1].type = LOOP_ON_ITEMS
                     THEN 1 + Depth(chain[1].firstLoopAction)
                     ELSE 0
             rest == Depth(Tail(chain))
         IN  IF here > rest THEN here ELSE rest

\* The flows of the failure search: a loop within a loop only among the flows
\* that leave out the last step name.
FailureTriggers == {t \in Triggers : Size(t) < Len(StepNames) \/ Depth(t) <= 1}

(* ----------------------- flowHelper (shared package) ------------------- *)
RECURSIVE AllNodes(_)
AllNodes(chain) ==
    IF chain = <<>> THEN <<>>
    ELSE <<chain[1]>> \o AllNodes(chain[1].firstLoopAction) \o AllNodes(Tail(chain))

getAllSteps(t) == <<TriggerNode>> \o AllNodes(t)

NotFound == [found |-> FALSE, path |-> <<>>]

RECURSIVE PathIn(_, _)
PathIn(chain, target) ==
    IF chain = <<>> THEN NotFound
    ELSE IF chain[1].name = target THEN [found |-> TRUE, path |-> <<>>]
    ELSE LET inner == PathIn(chain[1].firstLoopAction, target)
         IN  IF inner.found
             THEN [found |-> TRUE, path |-> <<chain[1]>> \o inner.path]
             ELSE PathIn(Tail(chain), target)

findPathToStep(t, targetStepName) ==
    IF targetStepName = TriggerNode.name
    THEN [found |-> TRUE, path |-> <<>>]
    ELSE PathIn(t, targetStepName)

isChildOf(parent, childStepName) ==
    \E i \in 1..Len(AllNodes(parent.firstLoopAction)) :
        AllNodes(parent.firstLoopAction)[i].name = childStepName

(* ------------------------------ runs ----------------------------------- *)
RECURSIVE SnapSize(_), IterSize(_)
SnapSize(m) ==
    IF m = <<>> THEN 0
    ELSE 1 + IterSize(m[1][2].iterations) + SnapSize(Tail(m))
IterSize(its) ==
    IF its = <<>> THEN 0 ELSE SnapSize(its[1]) + IterSize(Tail(its))

RECURSIVE SnapFailed(_), IterFailed(_)
SnapFailed(m) ==
    IF m = <<>> THEN 0
    ELSE (IF m[1][2].status = FAILED THEN 1 ELSE 0)
         + IterFailed(m[1][2].iterations) + SnapFailed(Tail(m))
IterFailed(its) ==
    IF its = <<>> THEN 0 ELSE SnapFailed(its[1]) + IterFailed(Tail(its))

\* The records a step can be given when it is reached.
NewRecords(node, ref, statuses) ==
    IF node.type = LOOP_ON_ITEMS
    THEN {[type |-> LOOP_ON_ITEMS, status |-> s, hasOutput |-> o,
           iterations |-> <<>>, ref |-> ref] : s \in statuses, o \in BOOLEAN}
    ELSE {[type |-> node.type, status |-> s, hasOutput |-> (s = SUCCEEDED),
           iterations |-> <<>>, ref |-> ref] : s \in statuses}

\* The snapshots one step of execution makes of snap, the record of chain so
\* far: the next step of the chain is recorded, or the loop recorded last begins
\* an iteration (its last one being over), or its last iteration goes on.
RECURSIVE Extend(_, _, _, _)
Extend(chain, snap, ref, statuses) ==
    LET n == Len(snap)
        next ==
            IF n < Len(chain)
            THEN {Append(snap, <<chain[n + 1].name, r>>) :
                    r \in NewRecords(chain[n + 1],
                                     [names |-> Append(ref.names, chain[n + 1].name),
                                      idxs |-> ref.idxs],
                                     statuses)}
            ELSE {}
        last == snap[n][2]
        body == chain[n].firstLoopAction
        k == Len(last.iterations)
        inner == [names |-> Append(ref.names, chain[n].name), idxs |-> ref.idxs]
        begin ==
            IF k < MaxIter /\ (k = 0 \/ Len(last.iterations[k]) = Len(body))
            THEN {[snap EXCEPT ![n][2].iterations = Append(@, <<>>)]}
            ELSE {}
        goOn ==
            IF k > 0
            THEN {[snap EXCEPT ![n][2].iterations[k] = s] :
                    s \in Extend(body, last.iterations[k],
                                 [names |-> inner.names, idxs |-> Append(ref.idxs, k - 1)],
                                 statuses)}
            ELSE {}
    IN  next \cup (IF n > 0 /\ last.type = LOOP_ON_ITEMS /\ last.hasOutput
                   THEN begin \cup goOn ELSE {})

\* The engine records one more step, or one more iteration, of the run.
Record(statuses, budget) ==
    /\ op = "idle"
    /\ \E s \in Extend(trigger, steps, NoRef,
                       IF SnapFailed(steps) < MaxFailed THEN statuses
                       ELSE statuses \ {FAILED}) :
          /\ SnapSize(s) <= budget
          /\ steps' = s
    /\ UNCHANGED <<trigger, callVars, dbVars>>

(* --------------------- flowRunUtils (src/unnamed/part_000) ------------- *)
\* output[stepName]
Lookup(m, name) ==
    LET I == {i \in 1..Len(m) : m[i][1] = name}
    IN  IF I = {} THEN <<>> ELSE <<m[CHOOSE i \in I : TRUE][2]>>

Keys(m) == {m[i][1] : i \in 1..Len(m)}

RECURSIVE findFailedStepInLoop(_), ReduceIteration(_, _, _), ReduceIterations(_, _, _)

\* The inner reduce, over the entries of one iteration, from entry i on.
ReduceIteration(entries, i, res) ==
    IF i > Len(entries) THEN res
    ELSE LET name == entries[i][1]
             step == entries[i][2]
         IN  ReduceIteration(entries, i + 1,
                 IF step.status = FAILED THEN name
                 ELSE IF step.type = LOOP_ON_ITEMS /\ step.hasOutput /\ res = NULL
                      THEN findFailedStepInLoop(step.iterations)
                      ELSE res)

\* The outer reduce, over the iterations, from iteration i on.
ReduceIterations(iterations, i, res) ==
    IF i > Len(iterations) THEN res
    ELSE LET failedStepWithinLoop == ReduceIteration(iterations[i], 1, NULL)
         IN  ReduceIterations(iterations, i + 1,
                 IF res # NULL THEN res ELSE failedStepWithinLoop)

\* Faulty variant: the outer reduce forgets what the earlier iterations found.
findFailedStepInLoopLastIteration(iterations) ==
    IF iterations = <<>> THEN NULL
    ELSE ReduceIteration(iterations[Len(iterations)], 1, NULL)

findFailedStepInLoop(iterations) == ReduceIterations(iterations, 1, NULL)

\* findFailedStep's reduce over Object.entries(run.steps), from entry i on.
RECURSIVE ReduceSteps(_, _, _)
ReduceSteps(entries, i, res) ==
    IF i > Len(entries) THEN res
    ELSE LET name == entries[i][1]
             step == entries[i][2]
         IN  ReduceSteps(entries, i + 1,
                 IF step.status = FAILED THEN name
                 ELSE IF step.type = LOOP_ON_ITEMS /\ step.hasOutput /\ res = NULL
                      THEN findFailedStepInLoop(step.iterations)
                      ELSE res)

\* Faulty variant: loops are not searched.
RECURSIVE findFailedStepTopLevelOnly(_)
findFailedStepTopLevelOnly(runSteps) ==
    IF runSteps = <<>> THEN NULL
    ELSE IF runSteps[Len(runSteps)][2].status = FAILED
         THEN runSteps[Len(runSteps)][1]
         ELSE findFailedStepTopLevelOnly(SubSeq(runSteps, 1, Len(runSteps) - 1))

findFailedStep(runSteps) == ReduceSteps(runSteps, 1, NULL)

\* { ...res, [name]: value }
Spread(res, name, value) ==
    [k \in DOMAIN res \cup {name} |-> IF k = name THEN value ELSE res[k]]

RECURSIVE ReduceLoops(_, _, _, _, _)
ReduceLoops(loops, i, res, failed, current) ==
    IF i > Len(loops) THEN res
    ELSE LET step == loops[i]
             isFailedStepParent == failed # NULL /\ isChildOf(step, failed)
         IN  ReduceLoops(loops, i + 1,
                 Spread(res, step.name,
                        IF isFailedStepParent THEN MAX_SAFE_INTEGER
                        ELSE IF step.name \in DOMAIN current THEN current[step.name]
                             ELSE 0),
                 failed, current)

\* Faulty variant: a failure anywhere puts every loop at the sentinel.
findLoopsStateEveryLoop(t, hasSteps, runSteps, current) ==
    LET loops == SelectSeq(getAllSteps(t), LAMBDA s : s.type = LOOP_ON_ITEMS)
        failed == IF hasSteps THEN findFailedStep(runSteps) ELSE NULL
    IN  [k \in DOMAIN current \cup {loops[i].name : i \in 1..Len(loops)} |->
            IF k \in {loops[i].name : i \in 1..Len(loops)}
            THEN IF failed # NULL THEN MAX_SAFE_INTEGER
                 ELSE IF k \in DOMAIN current THEN current[k] ELSE 0
            ELSE current[k]]

\* Faulty variant: the reduce starts from an empty mapping.
findLoopsStateFresh(t, hasSteps, runSteps, current) ==
    LET loops == SelectSeq(getAllSteps(t), LAMBDA s : s.type = LOOP_ON_ITEMS)
        failed == IF hasSteps THEN findFailedStep(runSteps) ELSE NULL
    IN  ReduceLoops(loops, 1, EmptyMap, failed, current)

findLoopsState(t, hasSteps, runSteps, current) ==
    LET loops == SelectSeq(getAllSteps(t), LAMBDA s : s.type = LOOP_ON_ITEMS)
        failed == IF hasSteps THEN findFailedStep(runSteps) ELSE NULL
    IN  ReduceLoops(loops, 1, current, failed, current)

\* iterations[loopIndexes[name]]: absent when loopIndexes has no entry for name
\* or the entry is no index of iterations.
IterationAt(iterations, indexes, name) ==
    IF name \notin DOMAIN indexes THEN <<>>
    ELSE LET k == indexes[name]
         IN  IF k >= 0 /\ k < Len(iterations) THEN <<iterations[k + 1]>> ELSE <<>>

\* The while loop of getLoopChildStepOutput; index counts from 1.
RECURSIVE WhileParents(_, _, _, _, _)
WhileParents(parents, indexes, childName, childOutput, index) ==
    IF index > Len(parents) THEN [threw |-> FALSE, val |-> childOutput]
    ELSE LET currentParentName == parents[index].name
         IN  IF childOutput # <<>> /\ childOutput[1].hasOutput
             THEN IF childOutput[1].type # LOOP_ON_ITEMS
                  THEN Threw  \* output.iterations is undefined: indexing it throws
                  ELSE LET it == IterationAt(childOutput[1].iterations, indexes,
                                             currentParentName)
                           name == IF index + 1 <= Len(parents)
                                   THEN parents[index + 1].name
                                   ELSE childName
                       IN  IF it # <<>>
                           THEN WhileParents(parents, indexes, childName,
                                             Lookup(it[1], name), index + 1)
                           ELSE WhileParents(parents, indexes, childName,
                                             childOutput, index + 1)
             ELSE WhileParents(parents, indexes, childName, childOutput, index + 1)

\* Faulty variant: every level is read at the outermost loop's index.
getLoopChildStepOutputOuterIndex(parents, indexes, childName, runOutput) ==
    IF Len(parents) = 0 THEN Undefined
    ELSE WhileParents(parents,
                      IF parents[1].name \in DOMAIN indexes
                      THEN [k \in {parents[i].name : i \in 1..Len(parents)} |->
                               indexes[parents[1].name]]
                      ELSE EmptyMap,
                      childName, Lookup(runOutput, parents[1].name), 1)

\* Faulty variant: no early return on an empty parents list, so parents[0].name throws.
getLoopChildStepOutputNoGuard(parents, indexes, childName, runOutput) ==
    IF Len(parents) = 0 THEN Threw
    ELSE WhileParents(parents, indexes, childName,
                      Lookup(runOutput, parents[1].name), 1)

getLoopChildStepOutput(parents, indexes, childName, runOutput) ==
    IF Len(parents) = 0 THEN Undefined
    ELSE WhileParents(parents, indexes, childName,
                      Lookup(runOutput, parents[1].name), 1)

\* Faulty variant: the step is always looked up through its loop ancestors.
extractStepOutputNoFastPath(name, indexes, output, t) ==
    LET parents == findPathToStep(t, name)
    IN  IF parents.found
        THEN getLoopChildStepOutput(
                 SelectSeq(parents.path, LAMBDA p : p.type = LOOP_ON_ITEMS),
                 indexes, name, output)
        ELSE Undefined

extractStepOutput(name, indexes, output, t) ==
    LET out == Lookup(output, name)
        parents == findPathToStep(t, name)
    IN  IF out # <<>> THEN [threw |-> FALSE, val |-> out]
        ELSE IF parents.found
             THEN getLoopChildStepOutput(
                      SelectSeq(parents.path, LAMBDA p : p.type = LOOP_ON_ITEMS),
                      indexes, name, output)
             ELSE Undefined

(* ------------------------------ calls ---------------------------------- *)
LoopNames(t) == {AllNodes(t)[i].name : i \in {j \in 1..Len(AllNodes(t)) :
                                                   AllNodes(t)[j].type = LOOP_ON_ITEMS}}
AllNames(t) == {getAllSteps(t)[i].name : i \in 1..Len(getAllSteps(t))}

\* Every mapping from some of keys to values.
Maps(keys, values) == UNION {[D -> values] : D \in SUBSET keys}

ExtractStepOutput ==
    /\ op = "idle"
    /\ \E name \in AllNames(trigger) \cup {GHOST},
          indexes \in Maps(LoopNames(trigger), 0..MaxIter) :
          /\ stepName' = name
          /\ loopIndexes' = indexes
          /\ stepOutput' = extractStepOutput(name, indexes, steps, trigger)
    /\ op' = "extractStepOutput"
    /\ UNCHANGED <<trigger, steps, failedStep, runHasSteps, currentLoopsState,
                   loopsState, dbVars>>

FindFailedStep ==
    /\ op = "idle"
    /\ failedStep' = findFailedStep(steps)
    /\ op' = "findFailedStep"
    /\ UNCHANGED <<trigger, steps, stepName, loopIndexes, stepOutput, runHasSteps,
                   currentLoopsState, loopsState, dbVars>>

FindLoopsState ==
    /\ op = "idle"
    /\ \E hasSteps \in BOOLEAN,
          current \in Maps(LoopNames(trigger) \cup {GHOST}, CurrentIndexes) :
          /\ runHasSteps' = hasSteps
          /\ currentLoopsState' = current
          /\ loopsState' = findLoopsState(trigger, hasSteps, steps, current)
    /\ op' = "findLoopsState"
    /\ UNCHANGED <<trigger, steps, stepName, loopIndexes, stepOutput, failedStep,
                   dbVars>>

InitCalls ==
    /\ op = "idle"
    /\ stepName = NULL
    /\ loopIndexes = EmptyMap
    /\ stepOutput = Undefined
    /\ failedStep = NULL
    /\ runHasSteps = TRUE
    /\ currentLoopsState = EmptyMap
    /\ loopsState = EmptyMap

InitDb ==
    /\ projects = EmptyMap
    /\ enabledFlows = {}
    /\ tx = [c \in Callers |-> NoCall]
    /\ sideEffects = {}
    /\ calls = 0

Init ==
    /\ trigger \in Triggers
    /\ steps = <<>>
    /\ InitCalls
    /\ InitDb

InitFailure ==
    /\ trigger \in FailureTriggers
    /\ steps = <<>>
    /\ InitCalls
    /\ InitDb

\* Output lookup, on runs whose steps all succeeded (no status is read).
RecordSucceeded == Record({SUCCEEDED}, MaxLocateRecords)
NextLocate == RecordSucceeded \/ ExtractStepOutput
SpecLocate == Init /\ [][NextLocate]_vars

\* Failure search and loop display state, on runs with failed steps.
RecordRun == Record({SUCCEEDED, FAILED}, MaxRecords)
NextFailure == RecordRun \/ FindFailedStep \/ FindLoopsState
SpecFailure == InitFailure /\ [][NextFailure]_vars
(* ------- platformProjectService.softDelete (platform-project-service.ts) ---- *)
\* Faulty variant: the criteria leave out deleted: IsNull().
MatchingDeletedToo(id, platformId) ==
    {i \in DOMAIN projects \cap {id} : projects[i].platformId = platformId}

\* The rows { id, platformId, deleted: IsNull() } selects.
Matching(id, platformId) ==
    {i \in DOMAIN projects \cap {id} :
        projects[i].platformId = platformId /\ ~projects[i].deleted}

RowOf(id) == IF id \in DOMAIN projects THEN <<projects[id]>> ELSE <<>>

\* Another caller's uncommitted update of the row holds its lock.
Locked(c, id) ==
    \E d \in Callers \ {c} :
        tx[d].id = id /\ tx[d].wrote /\ tx[d].pc \in {"onSoftDelete", "commit"}

\* softDelete is called: the transaction begins.
SoftDelete(c) ==
    /\ tx[c].pc \in {"none", "done"}
    /\ calls < MaxCalls
    /\ \E id \in ProjectIds, platformId \in PlatformIds :
          tx' = [tx EXCEPT ![c] = [NoCall EXCEPT !.pc = "assert", !.id = id,
                                                  !.platformId = platformId]]
    /\ calls' = calls + 1
    /\ UNCHANGED <<projects, enabledFlows, sideEffects, flowVars>>

\* flowService.existsByProjectAndStatus({ projectId, status: ENABLED })
existsByProjectAndStatus(projectId) == projectId \in enabledFlows

\* A throw inside the transaction rolls it back: nothing it wrote is kept.
Throw(c, code) ==
    [tx[c] EXCEPT !.pc = "done", !.error = code, !.wrote = FALSE]

AssertAllProjectFlowsAreDisabled(c) ==
    /\ tx[c].pc = "assert"
    /\ LET projectHasEnabledFlows == existsByProjectAndStatus(tx[c].id)
           read == [tx[c] EXCEPT !.flowEnabled = projectHasEnabledFlows,
                                 !.row = RowOf(tx[c].id)]
       IN  tx' = [tx EXCEPT ![c] =
                     IF projectHasEnabledFlows
                     THEN [read EXCEPT !.pc = "done", !.error = VALIDATION]
                     ELSE [read EXCEPT !.pc = "softDeleteOrThrow"]]
    /\ UNCHANGED <<projects, enabledFlows, sideEffects, calls, flowVars>>

SoftDeleteOrThrow(c) ==
    /\ tx[c].pc = "softDeleteOrThrow"
    /\ ~Locked(c, tx[c].id)
    /\ LET affected == Cardinality(Matching(tx[c].id, tx[c].platformId))
           read == [tx[c] EXCEPT !.row = RowOf(tx[c].id), !.affected = affected]
       IN  tx' = [tx EXCEPT ![c] =
                     IF affected # 1
                     THEN [read EXCEPT !.pc = "done", !.error = ENTITY_NOT_FOUND]
                     ELSE [read EXCEPT !.pc = "onSoftDelete", !.wrote = TRUE]]
    /\ UNCHANGED <<projects, enabledFlows, sideEffects, calls, flowVars>>

\* platformProjectSideEffects.onSoftDelete({ id }) runs, and returns or throws.
OnSoftDelete(c) ==
    /\ tx[c].pc = "onSoftDelete"
    /\ sideEffects' = sideEffects \cup {tx[c].id}
    /\ \E threw \in BOOLEAN :
          tx' = [tx EXCEPT ![c] =
                    IF threw
                    THEN [Throw(c, "onSoftDelete") EXCEPT !.ranSideEffect = TRUE]
                    ELSE [tx[c] EXCEPT !.pc = "commit", !.ranSideEffect = TRUE]]
    /\ UNCHANGED <<projects, enabledFlows, calls, flowVars>>

\* The callback returned: the transaction commits its update.
Commit(c) ==
    /\ tx[c].pc = "commit"
    /\ projects' = [projects EXCEPT ![tx[c].id].deleted = TRUE]
    /\ tx' = [tx EXCEPT ![c].pc = "done", ![c].wrote = FALSE, ![c].committed = TRUE]
    /\ UNCHANGED <<enabledFlows, sideEffects, calls, flowVars>>

\* hardDelete removes the row, once no uncommitted update holds it, and the
\* project's flows go with it.
HardDelete ==
    /\ \E id \in DOMAIN projects :
          /\ ~Locked(NULL, id)
          /\ projects' = [i \in DOMAIN projects \ {id} |-> projects[i]]
          /\ enabledFlows' = enabledFlows \ {id}
    /\ UNCHANGED <<tx, sideEffects, calls, flowVars>>

\* Elsewhere a flow of a live project is enabled, or a project's last enabled
\* flow disabled.
EnableFlow ==
    /\ \E id \in DOMAIN projects \ enabledFlows :
          /\ ~projects[id].deleted
          /\ enabledFlows' = enabledFlows \cup {id}
    /\ UNCHANGED <<projects, tx, sideEffects, calls, flowVars>>

DisableFlow ==
    /\ \E id \in enabledFlows : enabledFlows' = enabledFlows \ {id}
    /\ UNCHANGED <<projects, tx, sideEffects, calls, flowVars>>

InitDelete ==
    /\ trigger = <<>>
    /\ steps = <<>>
    /\ InitCalls
    /\ projects \in UNION {[D -> [platformId : PlatformIds, deleted : {FALSE}]] :
                              D \in SUBSET ProjectIds}
    /\ enabledFlows \in SUBSET DOMAIN projects
    /\ tx = [c \in Callers |-> NoCall]
    /\ sideEffects = {}
    /\ calls = 0

NextDelete ==
    \/ \E c \in Callers :
          \/ SoftDelete(c)
          \/ AssertAllProjectFlowsAreDisabled(c)
          \/ SoftDeleteOrThrow(c)
          \/ OnSoftDelete(c)
          \/ Commit(c)
    \/ HardDelete
    \/ EnableFlow
    \/ DisableFlow

SpecDelete ==
    InitDelete /\ [][NextDelete]_vars

(* ======================= properties: output lookup ===================== *)
\* The loop ancestors of the step last asked for, outermost first.
Parents == findPathToStep(trigger, stepName).path
Nested == findPathToStep(trigger, stepName).found /\ Len(Parents) >= 1
Extracted == op = "extractStepOutput"

\* The record at runSteps[L1].output.iterations[loopIndexes[L1]][L2]. ... [name],
\* read from mapping m at loop i of loops on. ok: every loop record and every
\* iteration snapshot asked for on the way exists. Otherwise missing says what
\* does not: the loop's record or output ("loop"), or, the loop having an
\* output of n iterations, the iteration asked for, loopIndexes having no
\* entry for the loop or one that is n or more ("iteration").
RECURSIVE Descend(_, _, _, _, _)
Descend(m, loops, i, indexes, name) ==
    IF i > Len(loops) THEN [ok |-> TRUE, missing |-> "", val |-> Lookup(m, name)]
    ELSE LET L == loops[i].name
             r == Lookup(m, L)
         IN  IF r = <<>> THEN [ok |-> FALSE, missing |-> "loop", val |-> <<>>]
             ELSE IF ~r[1].hasOutput
                  THEN [ok |-> FALSE, missing |-> "loop", val |-> <<>>]
                  ELSE IF L \notin DOMAIN indexes
                       THEN [ok |-> FALSE, missing |-> "iteration", val |-> <<>>]
                       ELSE IF indexes[L] < 0 \/ indexes[L] >= Len(r[1].iterations)
                            THEN [ok |-> FALSE, missing |-> "iteration", val |-> <<>>]
                            ELSE Descend(r[1].iterations[indexes[L] + 1], loops,
                                         i + 1, indexes, name)

Path == Descend(steps, Parents, 1, loopIndexes, stepName)

\* C1: for a step nested in loops, extractStepOutput returns undefined, and does
\* not throw, whenever an enclosing loop's recorded output has n iterations and
\* loopIndexes has no entry for the loop or one that is n or more; in
\* particular it returns no other step's record.
C1_MissingIterationIsAbsent ==
    (/\ Extracted /\ stepName \notin Keys(steps) /\ Nested
     /\ ~Path.ok /\ Path.missing = "iteration")
        => stepOutput = Undefined

\* C2: for a step that is no key of run.steps and whose loop ancestors are
\* L1..Lk, if every loopIndexes[Li] addresses an existing iteration snapshot on
\* the path, extractStepOutput returns exactly the record at
\* runSteps[L1].output.iterations[loopIndexes[L1]][L2]. ... [step].
C2_NestedDescent ==
    (Extracted /\ stepName \notin Keys(steps) /\ Nested /\ Path.ok)
        => stepOutput = [threw |-> FALSE, val |-> Path.val]

C2_Witness ==
    /\ Extracted /\ stepName \notin Keys(steps) /\ Path.ok
    /\ Len(Parents) = 2
    /\ loopIndexes[Parents[2].name] > 0
    /\ stepOutput.val # <<>>

\* C6: for a stepName that is a key of run.steps, extractStepOutput returns that
\* very record, whatever loopIndexes and the flow are.
C6_FastPathIdentity ==
    (Extracted /\ stepName \in Keys(steps))
        => \E i \in 1..Len(steps) :
              /\ steps[i][1] = stepName
              /\ stepOutput = [threw |-> FALSE, val |-> <<steps[i][2]>>]

C6_Witness ==
    /\ Extracted /\ stepName \in Keys(steps)
    /\ stepOutput.val # <<>>
    /\ stepOutput.val[1].type = LOOP_ON_ITEMS
    /\ stepName \in DOMAIN loopIndexes
    /\ loopIndexes[stepName] >= Len(stepOutput.val[1].iterations)

\* The steps that have no loop ancestor.
TopLevelNames == {TriggerNode.name} \cup {trigger[i].name : i \in 1..Len(trigger)}

\* C9: for a stepName that is no key of run.steps, extractStepOutput returns
\* undefined without throwing both when the step is nowhere in the flow and
\* when it is a top-level step (no loop ancestor) without a record.
C9_NotFoundIsAbsent ==
    (/\ Extracted /\ stepName \notin Keys(steps)
     /\ (stepName \notin AllNames(trigger) \/ stepName \in TopLevelNames))
        => stepOutput = Undefined

C9_Witness ==
    /\ Extracted /\ stepName \notin Keys(steps)
    /\ stepName \in TopLevelNames \ {TriggerNode.name}
    /\ steps # <<>>
    /\ loopIndexes # EmptyMap
    /\ stepOutput = Undefined
(* ====================== properties: failure search ===================== *)
FoundFailed == op = "findFailedStep"

\* The first failure in scan order: the first entry that has failed or is a
\* loop holding a failure; in a loop, the first iteration that holds one.
RECURSIVE FirstFailed(_), FirstFailedInLoop(_)
FirstFailed(entries) ==
    IF entries = <<>> THEN NULL
    ELSE LET step == entries[1][2]
             here == IF step.status = FAILED THEN entries[1][1]
                     ELSE IF step.type = LOOP_ON_ITEMS /\ step.hasOutput
                          THEN FirstFailedInLoop(step.iterations)
                          ELSE NULL
         IN  IF here # NULL THEN here ELSE FirstFailed(Tail(entries))
FirstFailedInLoop(iterations) ==
    IF iterations = <<>> THEN NULL
    ELSE IF FirstFailed(iterations[1]) # NULL THEN FirstFailed(iterations[1])
         ELSE FirstFailedInLoop(Tail(iterations))

\* The names of the failed records within reach: the entries, and those of the
\* iteration snapshots of the loop records that have an output.
RECURSIVE FailedNames(_)
FailedNames(entries) ==
    UNION {
        (IF entries[i][2].status = FAILED THEN {entries[i][1]} ELSE {})
        \cup (IF entries[i][2].type = LOOP_ON_ITEMS /\ entries[i][2].hasOutput
              THEN UNION {FailedNames(entries[i][2].iterations[j]) :
                             j \in 1..Len(entries[i][2].iterations)}
              ELSE {})
        : i \in 1..Len(entries)}

\* C3: findFailedStep returns the failure met first in the scan, at every
\* level; a failed entry later in the scan never replaces one found earlier.
C3_FirstFailureWins ==
    FoundFailed => failedStep = FirstFailed(steps)

\* The run of the scenario: the top-level steps are a succeeded step A and a
\* loop B, not failed itself, whose iterations 0 and 1 hold no failure and whose
\* iteration 2 holds the failed step C and no other failure.
C4_Scenario ==
    /\ Len(steps) = 2
    /\ steps[1][1] = "A" /\ steps[1][2].status = SUCCEEDED
    /\ steps[1][2].type # LOOP_ON_ITEMS
    /\ steps[2][1] = "B" /\ steps[2][2].type = LOOP_ON_ITEMS
    /\ steps[2][2].status # FAILED /\ steps[2][2].hasOutput
    /\ Len(steps[2][2].iterations) >= 3
    /\ FailedNames(steps[2][2].iterations[1]) = {}
    /\ FailedNames(steps[2][2].iterations[2]) = {}
    /\ FailedNames(steps[2][2].iterations[3]) = {"C"}
    /\ Lookup(steps[2][2].iterations[3], "C") # <<>>
    /\ Lookup(steps[2][2].iterations[3], "C")[1].status = FAILED

\* C4: on a run whose top-level steps are a succeeded step A and a loop B that
\* recorded a failed step C in iteration 2, iterations 0 and 1 holding no
\* failure, findFailedStep returns "C", not "B" and not null.
C4_NestedFailureFound ==
    (FoundFailed /\ C4_Scenario) => failedStep = "C"

C4_Witness ==
    FoundFailed /\ C4_Scenario /\ failedStep = "C"

\* C7: findFailedStep returns null exactly when no record within reach has
\* failed, and otherwise the key of a record within reach that has.
C7_NullIffNoFailure ==
    FoundFailed =>
        /\ (failedStep = NULL) <=> (FailedNames(steps) = {})
        /\ failedStep # NULL => failedStep \in FailedNames(steps)

C7_Witness ==
    /\ FoundFailed
    /\ failedStep # NULL
    /\ failedStep \notin Keys(steps)
    /\ Cardinality(FailedNames(steps)) >= 2

(* ==================== properties: loop display state =================== *)
FoundLoops == op = "findLoopsState"
Failed == IF runHasSteps THEN findFailedStep(steps) ELSE NULL
\* The loops that hold step name in their body, at any depth.
Enclosing(name) ==
    IF name = NULL THEN {}
    ELSE {findPathToStep(trigger, name).path[i].name :
             i \in 1..Len(findPathToStep(trigger, name).path)}
Kept(M) == IF M \in DOMAIN currentLoopsState THEN currentLoopsState[M] ELSE 0

\* C5: when findFailedStep yields a step F, findLoopsState maps every loop that
\* holds F, at any depth, to Number.MAX_SAFE_INTEGER and every other loop M to
\* currentLoopsState[M], or to 0 when it has none.
C5_EnclosingLoopsGetSentinel ==
    (FoundLoops /\ Failed # NULL) =>
        \A M \in LoopNames(trigger) :
            /\ M \in DOMAIN loopsState
            /\ loopsState[M] = IF M \in Enclosing(Failed) THEN MAX_SAFE_INTEGER
                               ELSE Kept(M)

C5_Witness ==
    /\ FoundLoops /\ Failed # NULL
    /\ \E M1, M2 \in LoopNames(trigger) \cap DOMAIN currentLoopsState :
          /\ M1 # M2
          /\ loopsState[M1] = MAX_SAFE_INTEGER
          /\ loopsState[M2] = MAX_SAFE_INTEGER

\* C8, as stated: the result has an entry for every loop of the flow and keeps
\* every key of currentLoopsState with its value; when no step failed, or
\* run.steps is absent, every loop has its currentLoopsState value, or 0.
C8_KeepsEveryValue ==
    FoundLoops =>
        /\ LoopNames(trigger) \subseteq DOMAIN loopsState
        /\ \A k \in DOMAIN currentLoopsState :
              k \in DOMAIN loopsState /\ loopsState[k] = currentLoopsState[k]
        /\ (~runHasSteps \/ FailedNames(steps) = {}) =>
              \A M \in LoopNames(trigger) : loopsState[M] = Kept(M)

\* C8, amended: the result's keys are the loops of the flow and the keys of
\* currentLoopsState; a key of currentLoopsState keeps its value unless it names
\* a loop that holds the failed step; when no step failed, or run.steps is
\* absent, every loop has its currentLoopsState value, or 0.
C8_MergedMapping ==
    FoundLoops =>
        /\ DOMAIN loopsState = LoopNames(trigger) \cup DOMAIN currentLoopsState
        /\ \A k \in DOMAIN currentLoopsState :
              k \notin Enclosing(Failed) => loopsState[k] = currentLoopsState[k]
        /\ (~runHasSteps \/ FailedNames(steps) = {}) =>
              \A M \in LoopNames(trigger) : loopsState[M] = Kept(M)

C8_Witness ==
    /\ FoundLoops
    /\ GHOST \in DOMAIN currentLoopsState
    /\ \E M \in LoopNames(trigger) \cap DOMAIN currentLoopsState :
          loopsState[M] = MAX_SAFE_INTEGER
    /\ \E M \in LoopNames(trigger) \ DOMAIN currentLoopsState :
          loopsState[M] = 0
(* ======================== properties: softDelete ======================= *)
\* The project was, as the call last went to the database, a row of the given
\* id and platformId that was not deleted; otherwise it was missing, of another
\* platform, or soft-deleted already.
ReadLiveRow(c) ==
    /\ tx[c].row # <<>>
    /\ tx[c].row[1].platformId = tx[c].platformId
    /\ ~tx[c].row[1].deleted

\* A call that failed with either error set no marker and ran no side effect.
FailedClean(c) ==
    tx[c].error \in {VALIDATION, ENTITY_NOT_FOUND}
        => ~tx[c].committed /\ ~tx[c].ranSideEffect /\ ~tx[c].wrote

\* A call that committed found no ENABLED flow and matched exactly one live row.
CommittedGuarded(c) ==
    tx[c].committed
        => ~tx[c].flowEnabled /\ tx[c].affected = 1 /\ ReadLiveRow(c)
           /\ tx[c].error = NULL /\ tx[c].ranSideEffect

\* A project's deleted marker changes only by being set, as such a call commits.
MarkedOnlyByGuardedCall ==
    \A id \in DOMAIN projects \cap DOMAIN projects' :
        projects'[id].deleted # projects[id].deleted =>
            /\ projects'[id].deleted
            /\ \E c \in Callers :
                  /\ tx[c].pc = "commit" /\ tx'[c].committed
                  /\ tx[c].id = id
                  /\ projects[id].platformId = tx[c].platformId
                  /\ ~tx[c].flowEnabled /\ tx[c].affected = 1 /\ ReadLiveRow(c)

\* C10, as stated: a project is marked deleted only by a call that found no
\* ENABLED flow and matched exactly one live row of the id and platformId; a
\* call on a project with an enabled flow fails with VALIDATION, and a call on
\* a missing, foreign-platform or soft-deleted project with ENTITY_NOT_FOUND; a
\* failing call changes no marker and runs no side effect.
C10_AsStated ==
    /\ [](\A c \in Callers : tx[c].pc = "done" =>
            /\ tx[c].flowEnabled => tx[c].error = VALIDATION
            /\ ~ReadLiveRow(c) => tx[c].error = ENTITY_NOT_FOUND
            /\ FailedClean(c)
            /\ CommittedGuarded(c))
    /\ [][MarkedOnlyByGuardedCall]_vars

\* C10, amended: as stated, but the call on a missing, foreign-platform or
\* soft-deleted project fails with ENTITY_NOT_FOUND when the project has no
\* enabled flow; when it has one, the call fails with VALIDATION.
C10_GuardedSoftDelete ==
    /\ [](\A c \in Callers : tx[c].pc = "done" =>
            /\ tx[c].flowEnabled => tx[c].error = VALIDATION
            /\ (~tx[c].flowEnabled /\ ~ReadLiveRow(c))
                  => tx[c].error = ENTITY_NOT_FOUND
            /\ FailedClean(c)
            /\ CommittedGuarded(c))
    /\ [][MarkedOnlyByGuardedCall]_vars

C10_Witness ==
    \E c, d \in Callers :
        /\ tx[c].pc = "done" /\ tx[c].committed
        /\ tx[d].pc = "done" /\ tx[d].error = ENTITY_NOT_FOUND
        /\ tx[d].id = tx[c].id /\ tx[d].platformId = tx[c].platformId
        /\ tx[d].row # <<>> /\ tx[d].row[1].deleted
====
